---------------------------- MODULE Spec2Model ----------------------------
(***************************************************************************)
(* A model of the Cloudinary delete relay (src/index.js, lines 46-177; the *)
(* file src/unnamed/part_000 is the same server with the same behaviour).  *)
(* index.js also still carries the earlier single-account server (lines    *)
(* 1-44); the model follows the multi-account server.                      *)
(*                                                                         *)
(* JavaScript values are modelled as follows.                              *)
(*   - cloud_name, resource_type, type, api_key, api_secret are atomic     *)
(*     strings; Undefined stands for an absent field / unset variable and  *)
(*     "" for the empty string, the two falsy values these fields take.    *)
(*   - public_id, secure_url and invalidate are tagged records [t, v],     *)
(*     because the handler depends on their type or on their characters.   *)
(*     A public_id string is the sequence of its characters; a secure_url  *)
(*     string is the sequence of its segments between "/" characters       *)
(*     (what s.split("/") returns); the empty string is the empty sequence *)
(*     in both.                                                            *)
(***************************************************************************)
EXTENDS Naturals, Sequences, FiniteSets, TLC

VARIABLES
    ACCOUNTS,         \* index.js:68  the parsed CLOUDINARY_ACCOUNTS_JSON
    DEFAULT_ACCOUNT,  \* index.js:78  the single-account triple of the environment
    req,              \* one record per POST /deleteMedia request being handled
    fn                \* the last direct call of a helper: [name, arg, ret]

vars == <<ACCOUNTS, DEFAULT_ACCOUNT, req, fn>>

----------------------------------------------------------------------------
(* Bounds of the model *)

\* how many requests are handled concurrently
MaxRequests == 2
\* the longest public_id string, in characters
MaxIdLen == 2
\* the longest path (segments after the host) of a probed secure_url
MaxPath == 4

----------------------------------------------------------------------------
(* JavaScript values *)

Undefined == "<undefined>"

JsUndefined == [t |-> "undefined"]

JsString(s) == [t |-> "string", v |-> s]

JsNumber(n) == [t |-> "number", v |-> n]

JsBoolean(b) == [t |-> "boolean", v |-> b]

\* truthiness of an atomic string field: undefined and "" are falsy
Truthy(x) == x # Undefined /\ x # ""

\* a || b on atomic string fields
JsOr(a, b) == IF Truthy(a) THEN a ELSE b

\* truthiness of a tagged value
TruthyValue(x) ==
    CASE x.t = "undefined" -> FALSE
      [] x.t = "null"      -> FALSE
      [] x.t = "boolean"   -> x.v
      [] x.t = "number"    -> x.v # 0
      [] x.t = "string"    -> x.v # <<>>
      [] OTHER             -> TRUE

IsSpace(c) == c \in {" ", "\t"}

RECURSIVE TrimStart(_)
TrimStart(s) ==
    IF s = <<>> THEN s
    ELSE IF IsSpace(Head(s)) THEN TrimStart(Tail(s)) ELSE s

RECURSIVE TrimEnd(_)
TrimEnd(s) ==
    IF s = <<>> THEN s
    ELSE IF IsSpace(s[Len(s)]) THEN TrimEnd(SubSeq(s, 1, Len(s) - 1)) ELSE s

\* String(public_id).trim() on a string value
Trim(s) == TrimEnd(TrimStart(s))


----------------------------------------------------------------------------
(* Configuration: what the process reads from its environment at startup *)

Entry(k, s) == [api_key |-> k, api_secret |-> s]

EmptyTable == [c \in {} |-> Entry(Undefined, Undefined)]

\* the JSON objects CLOUDINARY_ACCOUNTS_JSON is set to in the model
AccountTables ==
    { EmptyTable,
      [c \in {"mycloud"} |-> Entry("K", "S")],
      [c \in {"mycloud"} |-> Entry("K", Undefined)],
      [c \in {"mycloud", "other"} |->
            IF c = "mycloud" THEN Entry("K", "S") ELSE Entry("K2", "S2")] }

\* the values of the environment variable CLOUDINARY_ACCOUNTS_JSON
AccountsEnv ==
    { [t |-> "unset"], [t |-> "invalid"], [t |-> "null"] }
        \cup { [t |-> "object", own |-> tbl] : tbl \in AccountTables }

\* JSON.parse(process.env.CLOUDINARY_ACCOUNTS_JSON || "{}"), {} when it throws
ParseAccounts(env) ==
    CASE env.t = "unset"   -> [t |-> "object", own |-> EmptyTable]
      [] env.t = "invalid" -> [t |-> "object", own |-> EmptyTable]
      [] OTHER             -> env

\* the values of CLOUD_NAME, CLOUDINARY_API_KEY, CLOUDINARY_API_SECRET
DefaultAccounts ==
    { [cloud_name |-> Undefined, api_key |-> Undefined, api_secret |-> Undefined],
      [cloud_name |-> "dflt",    api_key |-> "DK",      api_secret |-> "DS"],
      [cloud_name |-> "dflt",    api_key |-> "DK",      api_secret |-> Undefined],
      [cloud_name |-> "mycloud", api_key |-> "DK",      api_secret |-> "DS"] }

\* property names every object inherits from Object.prototype
ObjectPrototypeKeys ==
    {"constructor", "toString", "valueOf", "hasOwnProperty", "__proto__"}

\* ACCOUNTS[cloud_name] on an object: an own entry, an inherited member
\* (a truthy value without api_key / api_secret), or undefined
GetProp(table, k) ==
    IF k \in DOMAIN table.own
    THEN [t |-> "object", api_key |-> table.own[k].api_key,
                          api_secret |-> table.own[k].api_secret]
    ELSE IF k \in ObjectPrototypeKeys
    THEN [t |-> "function", api_key |-> Undefined, api_secret |-> Undefined]
    ELSE [t |-> "undefined"]

----------------------------------------------------------------------------
(* parseFromUrl *)

\* the {} returned when the pattern does not match: every field reads undefined
EmptyParse ==
    [cloud_name |-> Undefined, resource_type |-> Undefined, type |-> Undefined]

\* the segments of the model that end with the literal "res.cloudinary.com"
CloudinaryHosts == {"res.cloudinary.com", "eu.res.cloudinary.com"}

\* a pattern without the host literal: /\/([^/]+)\/(image|video)\/([^/]+)\//
HostMatches_AnyHost(seg) == TRUE

\* res\.cloudinary\.com\/ matches at the end of this segment
HostMatches(seg) == seg \in CloudinaryHosts

\* /res\.cloudinary\.com\/([^/]+)\/(image|video)\/([^/]+)\// matched with the
\* host at segment i: the host is followed by three segments and one more "/"
MatchAt(segs, i) ==
    /\ i + 4 <= Len(segs)
    /\ HostMatches(segs[i])
    /\ segs[i + 1] # ""
    /\ segs[i + 2] \in {"image", "video"}
    /\ segs[i + 3] # ""

SetMin(S) == CHOOSE x \in S : \A y \in S : x <= y

parseFromUrl(secureUrl) ==
    IF secureUrl.t # "string" THEN EmptyParse
    ELSE LET segs == secureUrl.v
             hits == { i \in 1..Len(segs) : MatchAt(segs, i) }
         IN  IF hits = {} THEN EmptyParse
             ELSE LET i == SetMin(hits)       \* match() returns the leftmost match
                  IN  [cloud_name    |-> segs[i + 1],
                       resource_type |-> segs[i + 2],
                       type          |-> segs[i + 3]]

----------------------------------------------------------------------------
(* getCredsForCloud *)

Null == [t |-> "null"]

Creds(c, k, s) == [t |-> "object", cloud_name |-> c, api_key |-> k, api_secret |-> s]

\* a value thrown and caught by the handler's try/catch
TypeError(m) == [t |-> "rejected", hasResponse |-> FALSE, data |-> Undefined, message |-> m]

getCredsForCloud(cloud_name) ==
    IF ~Truthy(cloud_name) THEN Null
    ELSE IF ACCOUNTS.t = "null"
    THEN [t |-> "throw", err |-> TypeError("Cannot read properties of null")]
    ELSE LET e == GetProp(ACCOUNTS, cloud_name)
         IN  IF e.t # "undefined"
             THEN Creds(cloud_name, e.api_key, e.api_secret)
             ELSE IF Truthy(DEFAULT_ACCOUNT.cloud_name)
                     /\ DEFAULT_ACCOUNT.cloud_name = cloud_name
             THEN Creds(cloud_name, DEFAULT_ACCOUNT.api_key, DEFAULT_ACCOUNT.api_secret)
             ELSE Null

----------------------------------------------------------------------------
(* POST /deleteMedia: the steps of the handler *)

PublicIdRequired == [status |-> 400, body |-> [error |-> "public_id is required"]]

\* (part_000 words this message differently; the status and shape are the same)
NoCredentials ==
    [status |-> 400,
     body |-> [error |-> "No credentials for this cloud. Provide 'cloud_name' or 'secure_url' (and configure CLOUDINARY_ACCOUNTS_JSON / default envs)."]]

FailedToDelete == [status |-> 500, body |-> [error |-> "Failed to delete media"]]

\* if (!public_id) return res.status(400)...
PublicIdMissing(public_id) == ~TruthyValue(public_id)

\* a Derive step in which the parsed fields win over the request's
Derive_UrlWins(b) ==
    IF (~Truthy(b.cloud_name) \/ ~Truthy(b.resource_type) \/ ~Truthy(b.type))
           /\ TruthyValue(b.secure_url)
    THEN LET parsed == parseFromUrl(b.secure_url)
         IN  [cloud_name    |-> JsOr(parsed.cloud_name, b.cloud_name),
              resource_type |-> JsOr(parsed.resource_type, b.resource_type),
              type          |-> JsOr(parsed.type, b.type)]
    ELSE [cloud_name |-> b.cloud_name, resource_type |-> b.resource_type,
          type |-> b.type]

\* the Derive step: fill the falsy fields from secure_url
Derive(b) ==
    IF (~Truthy(b.cloud_name) \/ ~Truthy(b.resource_type) \/ ~Truthy(b.type))
           /\ TruthyValue(b.secure_url)
    THEN LET parsed == parseFromUrl(b.secure_url)
         IN  [cloud_name    |-> JsOr(b.cloud_name, parsed.cloud_name),
              resource_type |-> JsOr(b.resource_type, parsed.resource_type),
              type          |-> JsOr(b.type, parsed.type)]
    ELSE [cloud_name |-> b.cloud_name, resource_type |-> b.resource_type,
          type |-> b.type]

\* the Default step
DefaultResourceType(resource_type) == JsOr(resource_type, "image")

DefaultType(type) == JsOr(type, "upload")

\* invalidate != false, the loose comparison: 0 == false
ShouldInvalidate_Loose(invalidate) ==
    ~(\/ invalidate.t = "boolean" /\ invalidate.v = FALSE
      \/ invalidate.t = "number" /\ invalidate.v = 0)

\* invalidate !== false
ShouldInvalidate(invalidate) == ~(invalidate.t = "boolean" /\ invalidate.v = FALSE)

\* getCredsForCloud(cloud_name) || (DEFAULT_ACCOUNT.cloud_name ? DEFAULT_ACCOUNT : null)
ChooseCreds(cloud_name) ==
    LET found == getCredsForCloud(cloud_name)
    IN  IF found.t # "null" THEN found
        ELSE IF Truthy(DEFAULT_ACCOUNT.cloud_name)
        THEN Creds(DEFAULT_ACCOUNT.cloud_name, DEFAULT_ACCOUNT.api_key,
                   DEFAULT_ACCOUNT.api_secret)
        ELSE Null

\* a check that forgets api_secret
CredsUsable_NoSecret(creds) ==
    /\ creds.t = "object"
    /\ Truthy(creds.api_key)
    /\ Truthy(creds.cloud_name)

\* the negation of: !creds || !creds.api_key || !creds.api_secret || !creds.cloud_name
CredsUsable(creds) ==
    /\ creds.t = "object"
    /\ Truthy(creds.api_key)
    /\ Truthy(creds.api_secret)
    /\ Truthy(creds.cloud_name)

\* the template string of the Admin API endpoint, as its pieces
Endpoint(cloud_name, resource_type, type) ==
    <<"https://api.cloudinary.com/v1_1/", cloud_name, "/resources/",
      resource_type, "/", type>>

\* the arguments of axios.delete
DeleteCall(creds, resource_type, type, public_id, shouldInvalidate) ==
    [endpoint |-> Endpoint(creds.cloud_name, resource_type, type),
     auth     |-> [username |-> creds.api_key, password |-> creds.api_secret],
     data     |-> [public_ids |-> <<public_id>>, invalidate |-> shouldInvalidate]]

\* err?.response?.data || err.message
ErrorDetail(err) ==
    IF err.hasResponse /\ Truthy(err.data) THEN err.data ELSE err.message

\* a catch block that answers with the detail it logs
CatchResponse_EchoDetail(err) == [status |-> 500, body |-> [error |-> ErrorDetail(err)]]

\* the catch block: log the detail, answer with the fixed body
CatchResponse(err) == FailedToDelete

\* res.json(data)
SuccessResponse(data) == [status |-> 200, body |-> data]

\* the handler from its first line to its first await (or to its return):
\* what it leaves in its local variables, what it sends and what it answers
Handle(b) ==
    IF PublicIdMissing(b.public_id)
    THEN [pc |-> "done", body |-> b, calls |-> <<>>, logged |-> <<>>,
          responses |-> <<PublicIdRequired>>]
    ELSE
    LET public_id        == Trim(b.public_id.v)
        d                == Derive(b)
        resource_type    == DefaultResourceType(d.resource_type)
        type             == DefaultType(d.type)
        shouldInvalidate == ShouldInvalidate(b.invalidate)
        creds            == ChooseCreds(d.cloud_name)
        locals           == [public_id |-> public_id, cloud_name |-> d.cloud_name,
                             resource_type |-> resource_type, type |-> type,
                             shouldInvalidate |-> shouldInvalidate, creds |-> creds]
    IN  IF creds.t = "throw"
        THEN [pc |-> "done", body |-> b, locals |-> locals, calls |-> <<>>,
              logged |-> <<ErrorDetail(creds.err)>>,
              responses |-> <<CatchResponse(creds.err)>>]
        ELSE IF ~CredsUsable(creds)
        THEN [pc |-> "done", body |-> b, locals |-> locals, calls |-> <<>>,
              logged |-> <<>>, responses |-> <<NoCredentials>>]
        ELSE [pc |-> "awaiting", body |-> b, locals |-> locals,
              calls |-> <<DeleteCall(creds, resource_type, type, public_id,
                                     shouldInvalidate)>>,
              logged |-> <<>>, responses |-> <<>>]

----------------------------------------------------------------------------
(* Inputs *)

SeqsUpTo(S, n) == UNION { [1..k -> S] : k \in 0..n }

Requests == 1..MaxRequests

PublicIds == {JsUndefined} \cup { JsString(s) : s \in SeqsUpTo({" ", "a"}, MaxIdLen) }

CloudNames == {Undefined, "mycloud", "nocloud", "constructor"}

Https(host, path) == JsString(<<"https:", "", host>> \o path)

\* https://res.cloudinary.com/mycloud/image/upload/v1/a/b.jpg
UrlImage == Https("res.cloudinary.com", <<"mycloud", "image", "upload", "v1", "a", "b.jpg">>)

\* https://res.example.com/mycloud/image/upload/v1/a/b.jpg
UrlExample == Https("res.example.com", <<"mycloud", "image", "upload", "v1", "a", "b.jpg">>)

\* https://res.cloudinary.com/other/video/private/v1/a.mp4
UrlVideo == Https("res.cloudinary.com", <<"other", "video", "private", "v1", "a.mp4">>)

\* https://res.cloudinary.com/mycloud/raw/upload/a.bin
UrlRaw == Https("res.cloudinary.com", <<"mycloud", "raw", "upload", "a.bin">>)

SecureUrls ==
    {JsUndefined, JsNumber(42), JsString(<<>>), UrlImage, UrlExample, UrlVideo, UrlRaw}

ResourceTypes == {Undefined, "", "video"}

Types == {Undefined, "private"}

Invalidates ==
    {JsUndefined, JsBoolean(TRUE), JsBoolean(FALSE), JsNumber(0),
     JsString(<<"f", "a", "l", "s", "e">>), [t |-> "null"]}

\* the JSON bodies of POST /deleteMedia
Bodies ==
    [public_id : PublicIds, cloud_name : CloudNames, secure_url : SecureUrls,
     resource_type : ResourceTypes, type : Types, invalidate : Invalidates]

\* the bodies of the requests that are interleaved
ConcurrentBodies ==
    { b \in Bodies :
        /\ b.public_id = JsString(<<"a">>)
        /\ b.cloud_name \in {Undefined, "mycloud"}
        /\ b.secure_url \in {JsUndefined, UrlVideo}
        /\ b.resource_type = Undefined
        /\ b.type = Undefined
        /\ b.invalidate \in {JsUndefined, JsBoolean(FALSE)} }

\* what the remote service answers on success
RemoteBodies ==
    { [deleted |-> "deleted", partial |-> FALSE],
      [deleted |-> "not_found", partial |-> FALSE] }

\* what axios rejects with: an error response of the remote, or no response
UpstreamErrors ==
    { [t |-> "rejected", hasResponse |-> TRUE, data |-> "Invalid credentials for api_key",
       message |-> "Request failed with status code 401"],
      [t |-> "rejected", hasResponse |-> TRUE, data |-> "",
       message |-> "Request failed with status code 502"],
      [t |-> "rejected", hasResponse |-> FALSE, data |-> Undefined,
       message |-> "connect ECONNREFUSED"] }

ProbeHosts == {"res.cloudinary.com", "eu.res.cloudinary.com", "res.example.com"}

PathSegs == {"res.cloudinary.com", "mycloud", "image", "video", "upload", ""}

\* the arguments parseFromUrl is probed with
ProbeUrls ==
    {JsUndefined, JsNumber(42), Null}
        \cup { Https(h, path) : h \in ProbeHosts, path \in SeqsUpTo(PathSegs, MaxPath) }

\* the arguments getCredsForCloud is probed with
ProbeCloudNames == {Undefined, "", "mycloud", "Mycloud", "other", "dflt", "constructor"}

----------------------------------------------------------------------------
(* The state machine *)

Idle == [pc |-> "idle"]

NoCall == [name |-> "none"]

InitConfig(envs, defaults) ==
    /\ ACCOUNTS \in { ParseAccounts(env) : env \in envs }
    /\ DEFAULT_ACCOUNT \in defaults
    /\ req = [r \in Requests |-> Idle]
    /\ fn = NoCall

Init == InitConfig(AccountsEnv, DefaultAccounts)

\* a handler that remembers the default account it fell back to, under the
\* tenant it looked up
Receive_CachingFallback(r, bodies) ==
    /\ req[r].pc = "idle"
    /\ \E b \in bodies :
         LET h == Handle(b)
             fellBack == /\ h.calls # <<>>
                         /\ Truthy(h.locals.cloud_name)
                         /\ h.locals.creds.cloud_name # h.locals.cloud_name
             known == DOMAIN ACCOUNTS.own
         IN  /\ req' = [req EXCEPT ![r] = h]
             /\ ACCOUNTS' =
                  IF fellBack
                  THEN [ACCOUNTS EXCEPT !.own =
                          [c \in known \cup {h.locals.cloud_name} |->
                             IF c \in known THEN ACCOUNTS.own[c]
                             ELSE Entry(DEFAULT_ACCOUNT.api_key,
                                        DEFAULT_ACCOUNT.api_secret)]]
                  ELSE ACCOUNTS
    /\ UNCHANGED <<DEFAULT_ACCOUNT, fn>>

\* a request with a body of `bodies` arrives and its handler runs up to the
\* outbound call
Receive(r, bodies) ==
    /\ req[r].pc = "idle"
    /\ \E b \in bodies : req' = [req EXCEPT ![r] = Handle(b)]
    /\ UNCHANGED <<ACCOUNTS, DEFAULT_ACCOUNT, fn>>

\* axios.delete resolves: res.json(data)
UpstreamSucceeds(r, data) ==
    /\ req[r].pc = "awaiting"
    /\ req' = [req EXCEPT ![r] =
                 [@ EXCEPT !.pc = "done",
                           !.responses = Append(@, SuccessResponse(data))]
                   @@ [settled |-> [t |-> "resolved", data |-> data]]]
    /\ UNCHANGED <<ACCOUNTS, DEFAULT_ACCOUNT, fn>>

\* a catch block that sends the deletion once more before it gives up
UpstreamFails_Retry(r, err) ==
    /\ req[r].pc = "awaiting"
    /\ req' = [req EXCEPT ![r] =
                 IF Len(@.calls) < 2
                 THEN [@ EXCEPT !.calls = Append(@, @[1])]
                 ELSE [@ EXCEPT !.pc = "done",
                                !.logged = Append(@, ErrorDetail(err)),
                                !.responses = Append(@, CatchResponse(err))]
                        @@ [settled |-> err]]
    /\ UNCHANGED <<ACCOUNTS, DEFAULT_ACCOUNT, fn>>

\* axios.delete rejects: the catch block
UpstreamFails(r, err) ==
    /\ req[r].pc = "awaiting"
    /\ req' = [req EXCEPT ![r] =
                 [@ EXCEPT !.pc = "done",
                           !.logged = Append(@, ErrorDetail(err)),
                           !.responses = Append(@, CatchResponse(err))]
                   @@ [settled |-> err]]
    /\ UNCHANGED <<ACCOUNTS, DEFAULT_ACCOUNT, fn>>

\* one request, any body, any configuration
Next ==
    \/ Receive(1, Bodies)
    \/ \E data \in RemoteBodies : UpstreamSucceeds(1, data)
    \/ \E err \in UpstreamErrors : UpstreamFails(1, err)

Spec == Init /\ [][Next]_vars

\* the configurations the interleaved requests run under
ConcurrentEnv == { [t |-> "object", own |-> tbl] : tbl \in AccountTables \ {EmptyTable} }

ConcurrentDefaults == { d \in DefaultAccounts : d.cloud_name \in {Undefined, "dflt"} }

InitConcurrent == InitConfig(ConcurrentEnv, ConcurrentDefaults)

\* several requests in flight, each suspended at its outbound call
NextConcurrent ==
    \E r \in Requests :
        \/ Receive(r, ConcurrentBodies)
        \/ \E data \in RemoteBodies : UpstreamSucceeds(r, data)
        \/ \E err \in UpstreamErrors : UpstreamFails(r, err)

SpecConcurrent == InitConcurrent /\ [][NextConcurrent]_vars

\* a direct call of parseFromUrl
CallParseFromUrl ==
    /\ fn = NoCall
    /\ \E u \in ProbeUrls :
          fn' = [name |-> "parseFromUrl", arg |-> u, ret |-> parseFromUrl(u)]
    /\ UNCHANGED <<ACCOUNTS, DEFAULT_ACCOUNT, req>>

\* a direct call of getCredsForCloud
CallGetCredsForCloud ==
    /\ fn = NoCall
    /\ \E c \in ProbeCloudNames :
          fn' = [name |-> "getCredsForCloud", arg |-> c, ret |-> getCredsForCloud(c)]
    /\ UNCHANGED <<ACCOUNTS, DEFAULT_ACCOUNT, req>>

NextFn == CallParseFromUrl \/ CallGetCredsForCloud

SpecFn == Init /\ [][NextFn]_vars

----------------------------------------------------------------------------
(* Reading the state *)

Handled(r) == req[r].pc # "idle"

\* the handler got past the public_id check
Validated(r) == Handled(r) /\ "locals" \in DOMAIN req[r]

Dispatched(r) == Handled(r) /\ req[r].calls # <<>>

Settled(r) == Handled(r) /\ "settled" \in DOMAIN req[r]

CallTenant(c) == c.endpoint[2]

CallResourceType(c) == c.endpoint[4]

CallType(c) == c.endpoint[6]

\* the tenants the account table holds
OwnKeys == IF ACCOUNTS.t = "object" THEN DOMAIN ACCOUNTS.own ELSE {}

\* a public_id that is missing, or empty once its whitespace is trimmed
BlankPublicId(p) ==
    \/ p.t = "undefined"
    \/ p.t = "string" /\ \A i \in 1..Len(p.v) : p.v[i] \in {" ", "\t"}

----------------------------------------------------------------------------
(* The claims *)

\* C1: a request whose public_id is missing, or empty after trimming, is
\* answered 400 {error: "public_id is required"} and sends no outbound call.
C1_BlankPublicIdRejected ==
    \A r \in Requests :
        (Handled(r) /\ BlankPublicId(req[r].body.public_id))
            => /\ req[r].responses = <<PublicIdRequired>>
               /\ req[r].calls = <<>>

\* an account that lacks a tenant, a key or a secret, or no account at all
LacksCredentials(creds) ==
    \/ creds.t = "null"
    \/ /\ creds.t = "object"
       /\ \/ creds.cloud_name \in {Undefined, ""}
          \/ creds.api_key \in {Undefined, ""}
          \/ creds.api_secret \in {Undefined, ""}

\* C2: when the account chosen by lookup and fallback lacks tenant_id, api_key
\* or api_secret, the answer is the 400 credentials error and no outbound call
\* is sent; every outbound call carries a non-empty tenant, key and secret.
C2_NoCallWithoutCredentials ==
    \A r \in Requests :
        /\ (Validated(r) /\ LacksCredentials(req[r].locals.creds))
              => /\ req[r].responses = <<NoCredentials>>
                 /\ req[r].calls = <<>>
        /\ Handled(r) =>
              \A i \in DOMAIN req[r].calls :
                  LET c == req[r].calls[i]
                  IN  /\ CallTenant(c) \notin {Undefined, ""}
                      /\ c.auth.username \notin {Undefined, ""}
                      /\ c.auth.password \notin {Undefined, ""}

\* C2 witness: an empty table and no default account, answered 400; and a
\* table entry without a secret beside a complete default account, answered 400
C2_Witness ==
    \E r \in Requests :
        /\ Validated(r)
        /\ ~BlankPublicId(req[r].body.public_id)
        /\ req[r].responses = <<NoCredentials>>
        /\ \/ /\ ACCOUNTS.t = "object" /\ DOMAIN ACCOUNTS.own = {}
              /\ DEFAULT_ACCOUNT.cloud_name = Undefined
              /\ req[r].locals.creds.t = "null"
           \/ /\ req[r].locals.creds.t = "object"
              /\ req[r].locals.creds.api_secret = Undefined

\* C3: when the outbound call fails, the answer is exactly 500
\* {error: "Failed to delete media"}, whatever the error carries.
C3_FixedUpstreamError ==
    \A r \in Requests :
        (Settled(r) /\ req[r].settled.t = "rejected")
            => req[r].responses = <<FailedToDelete>>

\* C3 witness: a remote error body was logged and the fixed answer sent
C3_Witness ==
    \E r \in Requests :
        /\ Settled(r)
        /\ req[r].settled.t = "rejected"
        /\ req[r].settled.hasResponse
        /\ req[r].logged = <<"Invalid credentials for api_key">>
        /\ req[r].responses = <<FailedToDelete>>

\* C4: getCredsForCloud returns the table's account when the tenant is a key
\* of the table, else the default account's credentials when a default account
\* exists and has that tenant, else null (also for a null or empty tenant and
\* for any string that is not a configured key).
C4_ResolveExactMatch ==
    (fn.name = "getCredsForCloud" /\ ACCOUNTS.t = "object")
        => fn.ret =
             IF fn.arg \in DOMAIN ACCOUNTS.own
             THEN Creds(fn.arg, ACCOUNTS.own[fn.arg].api_key,
                        ACCOUNTS.own[fn.arg].api_secret)
             ELSE IF DEFAULT_ACCOUNT.cloud_name # Undefined
                     /\ DEFAULT_ACCOUNT.cloud_name = fn.arg
             THEN Creds(fn.arg, DEFAULT_ACCOUNT.api_key, DEFAULT_ACCOUNT.api_secret)
             ELSE Null

\* https://<host>/<tenant>/image/upload/... with a host of `hosts`
ImageUploadUrl(u, hosts) ==
    /\ u.t = "string"
    /\ Len(u.v) >= 7
    /\ u.v[1] = "https:" /\ u.v[2] = ""
    /\ u.v[3] \in hosts
    /\ u.v[4] # ""
    /\ u.v[5] = "image" /\ u.v[6] = "upload"

\* .../<tenant_id>/<image|video>/<access_type>/... occurs in u
HasLocatorShape(u) ==
    /\ u.t = "string"
    /\ \E i \in 1..Len(u.v) :
          /\ i + 3 <= Len(u.v)
          /\ u.v[i] # ""
          /\ u.v[i + 1] \in {"image", "video"}
          /\ u.v[i + 2] # ""

\* no segment of u ends with res.cloudinary.com
NoCloudinaryHost(u) ==
    u.t = "string" => \A i \in 1..Len(u.v) : u.v[i] \notin CloudinaryHosts

ParsedImageUpload(u) ==
    [cloud_name |-> u.v[4], resource_type |-> "image", type |-> "upload"]

\* C5 as stated: for any host, https://host/<tenant>/image/upload/... parses to
\* the tenant, "image" and "upload"; an input without the locator shape
\* (a non-string too) parses to the empty result.
C5_ParseAnyHost ==
    fn.name = "parseFromUrl" =>
        /\ ImageUploadUrl(fn.arg, ProbeHosts) => fn.ret = ParsedImageUpload(fn.arg)
        /\ ~HasLocatorShape(fn.arg) => fn.ret = EmptyParse

\* C5 amended: https://res.cloudinary.com/<tenant>/image/upload/... (a host
\* ending with res.cloudinary.com) parses to the tenant, "image" and "upload";
\* an input without the locator shape (a non-string too), and an input in which
\* res.cloudinary.com does not occur, parse to the empty result.
C5_ParseCloudinaryHost ==
    fn.name = "parseFromUrl" =>
        /\ ImageUploadUrl(fn.arg, CloudinaryHosts) => fn.ret = ParsedImageUpload(fn.arg)
        /\ ~HasLocatorShape(fn.arg) => fn.ret = EmptyParse
        /\ NoCloudinaryHost(fn.arg) => fn.ret = EmptyParse

\* C5 witness: a Cloudinary URL was parsed into its three fields
C5_Witness ==
    /\ fn.name = "parseFromUrl"
    /\ fn.arg = Https("res.cloudinary.com", <<"mycloud", "image", "upload", "">>)
    /\ fn.ret = [cloud_name |-> "mycloud", resource_type |-> "image", type |-> "upload"]

\* the body {public_id, secure_url: u} and nothing else
OnlyUrlBody(u) ==
    [public_id |-> JsString(<<"a">>), cloud_name |-> Undefined, secure_url |-> u,
     resource_type |-> Undefined, type |-> Undefined, invalidate |-> JsUndefined]

\* the table {"mycloud": {api_key: "K", api_secret: "S"}}
MyCloudTable == [t |-> "object", own |-> [c \in {"mycloud"} |-> Entry("K", "S")]]

\* the outbound call to tenant mycloud, image, upload, invalidate = true
MyCloudCall ==
    [endpoint |-> <<"https://api.cloudinary.com/v1_1/", "mycloud", "/resources/",
                    "image", "/", "upload">>,
     auth     |-> [username |-> "K", password |-> "S"],
     data     |-> [public_ids |-> <<<<"a">>>>, invalidate |-> TRUE]]

\* C6 as stated: with a secure_url, every field the request supplies is used
\* unchanged in the outbound call and every field it omits takes the value
\* parsed from the URL; {public_id, secure_url:
\* "https://res.example.com/mycloud/image/upload/v1/a/b.jpg"} with the table
\* {mycloud: {K, S}} is sent to mycloud, image, upload with invalidate = true.
C6_DeriveAsStated ==
    \A r \in Requests :
        /\ (Dispatched(r) /\ TruthyValue(req[r].body.secure_url)) =>
              LET b == req[r].body
                  c == req[r].calls[1]
                  p == parseFromUrl(b.secure_url)
              IN  /\ Truthy(b.cloud_name) => CallTenant(c) = b.cloud_name
                  /\ Truthy(b.resource_type) => CallResourceType(c) = b.resource_type
                  /\ Truthy(b.type) => CallType(c) = b.type
                  /\ (~Truthy(b.cloud_name) /\ Truthy(p.cloud_name))
                        => CallTenant(c) = p.cloud_name
                  /\ (~Truthy(b.resource_type) /\ Truthy(p.resource_type))
                        => CallResourceType(c) = p.resource_type
                  /\ (~Truthy(b.type) /\ Truthy(p.type)) => CallType(c) = p.type
        /\ (Handled(r) /\ req[r].body = OnlyUrlBody(UrlExample) /\ ACCOUNTS = MyCloudTable)
              => req[r].calls = <<MyCloudCall>>

\* C6 amended: with a secure_url, a resource_type or access_type the request
\* supplies is used unchanged in the outbound call, and a tenant_id it supplies
\* is the tenant that is looked up; each field it omits takes the value parsed
\* from the URL when the URL matches res.cloudinary.com/<tenant>/<image|video>/
\* <access_type>/; the call is addressed to the tenant looked up when the table
\* holds it, and otherwise to that tenant or to the default account's; the
\* scenario holds for https://res.cloudinary.com/mycloud/image/upload/v1/a/b.jpg.
C6_DeriveExplicitFirst ==
    \A r \in Requests :
        /\ (Dispatched(r) /\ TruthyValue(req[r].body.secure_url)) =>
              LET b == req[r].body
                  c == req[r].calls[1]
                  l == req[r].locals
                  p == parseFromUrl(b.secure_url)
              IN  /\ Truthy(b.cloud_name) => l.cloud_name = b.cloud_name
                  /\ Truthy(b.resource_type) => CallResourceType(c) = b.resource_type
                  /\ Truthy(b.type) => CallType(c) = b.type
                  /\ (~Truthy(b.cloud_name) /\ Truthy(p.cloud_name))
                        => l.cloud_name = p.cloud_name
                  /\ (~Truthy(b.resource_type) /\ Truthy(p.resource_type))
                        => CallResourceType(c) = p.resource_type
                  /\ (~Truthy(b.type) /\ Truthy(p.type)) => CallType(c) = p.type
                  /\ l.cloud_name \in OwnKeys => CallTenant(c) = l.cloud_name
                  /\ CallTenant(c) \in {l.cloud_name, DEFAULT_ACCOUNT.cloud_name}
        /\ (Handled(r) /\ req[r].body = OnlyUrlBody(UrlImage) /\ ACCOUNTS = MyCloudTable)
              => req[r].calls = <<MyCloudCall>>

\* C6 witness: the scenario with a Cloudinary URL was dispatched; and a request
\* that names its own resource_type beside a URL that names another
C6_Witness ==
    \E r \in Requests :
        /\ Dispatched(r)
        /\ \/ req[r].body = OnlyUrlBody(UrlImage) /\ ACCOUNTS = MyCloudTable
           \/ /\ req[r].body.secure_url = UrlImage
              /\ req[r].body.resource_type = "video"
              /\ CallResourceType(req[r].calls[1]) = "video"

\* C7: in a dispatched request resource_type is "image" and access_type is
\* "upload" when neither the request nor a parsed secure_url supplies them (a
\* malformed URL leaves the tenant absent too), and the invalidate flag sent is
\* false exactly when the request's invalidate is the boolean false.
C7_Defaults ==
    \A r \in Requests :
        Validated(r) =>
            LET b == req[r].body
                p == parseFromUrl(b.secure_url)
                fromUrl(v) == TruthyValue(b.secure_url) /\ Truthy(v)
            IN  /\ (~Truthy(b.cloud_name) /\ ~fromUrl(p.cloud_name))
                      => req[r].locals.cloud_name \in {Undefined, ""}
                /\ Dispatched(r) =>
                      LET c == req[r].calls[1]
                      IN  /\ (~Truthy(b.resource_type) /\ ~fromUrl(p.resource_type))
                                => CallResourceType(c) = "image"
                          /\ (~Truthy(b.type) /\ ~fromUrl(p.type))
                                => CallType(c) = "upload"
                          /\ (c.data.invalidate = FALSE)
                                <=> (b.invalidate = JsBoolean(FALSE))

\* C7 witness: a malformed URL, no fields, invalidate: 0, dispatched through the
\* default account as image / upload with invalidate = true
C7_Witness ==
    \E r \in Requests :
        /\ Dispatched(r)
        /\ req[r].body.secure_url = UrlRaw
        /\ req[r].body.cloud_name = Undefined
        /\ req[r].body.resource_type = Undefined
        /\ req[r].body.type = Undefined
        /\ req[r].body.invalidate = JsNumber(0)
        /\ req[r].locals.cloud_name = Undefined
        /\ CallResourceType(req[r].calls[1]) = "image"
        /\ CallType(req[r].calls[1]) = "upload"
        /\ req[r].calls[1].data.invalidate = TRUE

\* C8: when the lookup of the request's tenant yields no usable account (no
\* tenant, a tenant the table does not hold, or a table entry without api_key
\* or api_secret) and a complete default account is configured, the request is
\* dispatched with the default account; and the tenant of the endpoint and the
\* key and secret of every dispatched call belong to one account.
C8_FallbackToDefault ==
    \A r \in Requests :
        /\ ( /\ Validated(r)
             /\ ACCOUNTS.t = "object"
             /\ LET c == req[r].locals.cloud_name
                IN  \/ c \in {Undefined, ""}
                    \/ c \notin OwnKeys
                    \/ ACCOUNTS.own[c].api_key \in {Undefined, ""}
                    \/ ACCOUNTS.own[c].api_secret \in {Undefined, ""}
             /\ ~LacksCredentials(Creds(DEFAULT_ACCOUNT.cloud_name,
                                        DEFAULT_ACCOUNT.api_key,
                                        DEFAULT_ACCOUNT.api_secret)) )
              => /\ Dispatched(r)
                 /\ CallTenant(req[r].calls[1]) = DEFAULT_ACCOUNT.cloud_name
                 /\ req[r].calls[1].auth = [username |-> DEFAULT_ACCOUNT.api_key,
                                            password |-> DEFAULT_ACCOUNT.api_secret]
        /\ Dispatched(r) =>
              LET c == req[r].calls[1]
              IN  \/ /\ CallTenant(c) \in OwnKeys
                     /\ c.auth = [username |-> ACCOUNTS.own[CallTenant(c)].api_key,
                                  password |-> ACCOUNTS.own[CallTenant(c)].api_secret]
                  \/ /\ CallTenant(c) = DEFAULT_ACCOUNT.cloud_name
                     /\ c.auth = [username |-> DEFAULT_ACCOUNT.api_key,
                                  password |-> DEFAULT_ACCOUNT.api_secret]

\* C9: a request ends with exactly one response, of status 200, 400 or 500; it
\* sends at most one outbound call; a 400 is never preceded by an outbound
\* call; a 200 comes only after the outbound call succeeded and carries the
\* remote body unchanged; a request whose outbound call has completed or failed
\* is answered.
C9_OneResponse ==
    \A r \in Requests :
        Handled(r) =>
            /\ Len(req[r].calls) <= 1
            /\ Len(req[r].responses) <= 1
            /\ (req[r].pc = "done") <=> (Len(req[r].responses) = 1)
            /\ (req[r].pc = "awaiting") => (Len(req[r].calls) = 1 /\ ~Settled(r))
            /\ Settled(r) => (req[r].pc = "done" /\ Len(req[r].calls) = 1)
            /\ \A i \in DOMAIN req[r].responses :
                  LET a == req[r].responses[i]
                  IN  /\ a.status \in {200, 400, 500}
                      /\ a.status = 400 => req[r].calls = <<>>
                      /\ a.status = 200 =>
                            /\ Len(req[r].calls) = 1
                            /\ Settled(r)
                            /\ req[r].settled.t = "resolved"
                            /\ a.body = req[r].settled.data

\* C9 witness: one request answered 200 with the remote body after its one call
C9_Witness ==
    \E r \in Requests :
        /\ Settled(r)
        /\ req[r].pc = "done"
        /\ Len(req[r].calls) = 1
        /\ req[r].responses = <<[status |-> 200,
                                 body |-> [deleted |-> "not_found", partial |-> FALSE]]>>

\* C10: under any interleaving the account table and the default account are
\* never modified; a step of one request leaves every other request as it was;
\* and two requests with the same body send the same call and, given the same
\* upstream result, the same response, whatever was handled in between.
C10_Isolation ==
    [][ /\ ACCOUNTS' = ACCOUNTS
        /\ DEFAULT_ACCOUNT' = DEFAULT_ACCOUNT
        /\ \A r, q \in Requests :
              (r # q /\ req'[r] # req[r]) => req'[q] = req[q]
        /\ \A r, q \in Requests :
              (/\ req'[r].pc # "idle" /\ req'[q].pc # "idle"
               /\ req'[r].body = req'[q].body
               /\ (req'[r].pc = "done") <=> (req'[q].pc = "done"))
                 => /\ req'[r].calls = req'[q].calls
                    /\ ("locals" \in DOMAIN req'[r]) => (req'[r].locals = req'[q].locals)
                    /\ (\/ "settled" \notin DOMAIN req'[r]
                        \/ "settled" \notin DOMAIN req'[q]
                        \/ req'[r].settled # req'[q].settled
                        \/ req'[r].responses = req'[q].responses)
      ]_vars

\* C10 witness: two requests with different bodies are suspended at their
\* outbound calls, one of them through the default account
C10_Witness ==
    \E r, q \in Requests :
        /\ r # q
        /\ req[r].pc = "awaiting"
        /\ req[q].pc = "awaiting"
        /\ req[r].body # req[q].body
        /\ CallTenant(req[r].calls[1]) = "dflt"
        /\ CallTenant(req[q].calls[1]) = "mycloud"

============================================================================
